---- MODULE Spec2Model ----
(***************************************************************************)
(* Model of discord-showcase-loader: the Synology Download Station session *)
(* client (synology_client.py) and the Discord bot that drives it          *)
(* (discord_showcase_loader.py, config.py).                                *)
(*                                                                         *)
(* The client methods are coroutines, but every remote call in them is a   *)
(* blocking requests.get/requests.post: a client method never suspends, so *)
(* it runs to its return without any other task of the event loop running. *)
(* The only awaits of a message flow that do suspend are the add_reaction  *)
(* calls.  The variable `running` is the task that owns the event loop.    *)
(***************************************************************************)
EXTENDS Integers, Sequences, FiniteSets, TLC

VARIABLES
    session_id,          \* SynologyDownloadStation.session_id
    cpc,                 \* position inside the client call in progress
    call,                \* the client call in progress / last returned
    config,              \* the Config object
    botpc,               \* life cycle of the bot
    processed_messages,  \* DiscordShowcaseLoader.processed_messages
    flow,                \* one on_message task per delivered event
    running,             \* the task that owns the event loop (0: none)
    message,             \* the argument of a call of _extract_media_urls
    extracted            \* whether that call has returned, and its result

clientVars == <<session_id, cpc, call>>
extractVars == <<message, extracted>>
botVars == <<config, botpc, processed_messages, flow, running, extractVars>>
vars == <<session_id, cpc, call, config, botpc, processed_messages, flow, running,
          message, extracted>>

----------------------------------------------------------------------------
(* Bounds *)

\* how many create_download_task calls may be nested in one another (line
\* 166) before the interpreter raises RecursionError: the recursion limit,
\* scaled down
MaxRelogin == 2

\* how many message events the platform delivers in one run
MaxEvents == 2

\* how many attachments and how many URLs in the text a message given to
\* _extract_media_urls has
MaxAttachments == 2

MaxText == 2

----------------------------------------------------------------------------
(* The remote API as the client sees it *)

None == "None"

\* session cookies the remote may issue
Tokens == {"sid1", "sid2"}

\* requests.get/post raising, raise_for_status raising, response.json() raising
TransportErr == {"timeout", "badstatus", "badbody"}

\* create: success, error code 119, error code 403, any other error object
CreateResps == {"ok", "e119", "e403", "eother"} \cup TransportErr

\* the session id a successful login sets as cookie: the remote opens a new
\* session, so the id is not the one the client holds; which of the other
\* ids it is makes no difference to the client
NewToken == CHOOSE s \in Tokens : s # session_id

\* login: success with or without the "id" cookie, success false, transport
LoginResps ==
    {[resp |-> "ok", sid |-> s] : s \in {NewToken, None}}
        \cup {[resp |-> r, sid |-> None] : r \in {"fail"} \cup TransportErr}

LogoutResps == {"ok", "fail"} \cup TransportErr

ListResps == {"ok", "fail"} \cup TransportErr

\* one remote request (its kind, the session cookie and the parameters it
\* carries) and the answer to it (the kind of answer, the cookie it sets)
Req(kind, tok, data, resp, sid) ==
    [req |-> kind, tok |-> tok, data |-> data, resp |-> resp, sid |-> sid]

\* a call record: the operation, who called, the token at the call, the
\* arguments, the requests it made, the recursion depth and what it returned
NewCall(op, c, url, dest, trace, ret) ==
    [op |-> op, caller |-> c, tok0 |-> session_id, url |-> url,
     destination |-> dest, trace |-> trace, depth |-> 0, ret |-> ret]

ClientIdle == cpc \in {"idle", "returned"}

----------------------------------------------------------------------------
(* SynologyDownloadStation *)

\* login() with requests.get outside the try block
LoginResultUncaught(resp, sid, cur) ==
    IF resp = "ok"
    THEN [ret |-> "True", session_id |-> sid]
    ELSE [ret |-> IF resp \in TransportErr THEN "raised" ELSE "False",
          session_id |-> cur]

\* login() that forgets the session when it fails
LoginResultClearsOnFailure(resp, sid, cur) ==
    IF resp = "ok"
    THEN [ret |-> "True", session_id |-> sid]
    ELSE [ret |-> "False", session_id |-> None]

\* login(), lines 61-76: what it returns and the session_id it leaves
LoginResult(resp, sid, cur) ==
    IF resp = "ok"
    THEN [ret |-> "True", session_id |-> sid]
    ELSE [ret |-> "False", session_id |-> cur]

\* logout() that forgets the session whatever the remote answered
LogoutResultAlwaysClears(resp, cur) ==
    [ret |-> IF resp = "ok" THEN "True" ELSE "False", session_id |-> None]

\* logout(), lines 97-112, for a present session_id
LogoutResult(resp, cur) ==
    IF resp = "ok"
    THEN [ret |-> "True", session_id |-> None]
    ELSE [ret |-> "False", session_id |-> cur]

\* create_download_task that also re-logins on 403
CreateOutcomeRetry403(resp) ==
    CASE resp = "ok" -> "True"
      [] resp \in {"e119", "e403"} -> "relogin"
      [] OTHER -> "False"

\* create_download_task, lines 151-173: what follows a create response
CreateOutcome(resp) ==
    CASE resp = "ok" -> "True"
      [] resp = "e119" -> "relogin"
      [] OTHER -> "False"

\* line 166 without its return: the caller falls through to line 169
RetryResultDropped(r) == "False"

\* line 166: the caller returns what the recursive call returned
RetryResult(r) == r

\* what the outermost call returns when the call at depth d returns r
Returned(d, r) == IF d > 0 THEN RetryResult(r) ELSE r

\* the POST body, lines 133-141: destination only when it is not empty
PostData(url, dest) ==
    IF dest = <<>>
    THEN [uri |-> url]
    ELSE [uri |-> url, destination |-> dest]

\* the login parameters, lines 51-59
LoginParams ==
    [account |-> config.synology_username, passwd |-> config.synology_password]

\* the logout and list parameters, lines 90-95 and 188-192
MethodParams(method) == [method |-> method]

\* get_task_list, lines 196-210
ListResult(resp) == IF resp = "ok" THEN "data" ELSE None

login(c) ==
    /\ ClientIdle
    /\ \E r \in LoginResps :
         LET res == LoginResult(r.resp, r.sid, session_id) IN
         /\ session_id' = res.session_id
         /\ call' = NewCall("login", c, None, <<>>,
                            <<Req("auth", None, LoginParams, r.resp, r.sid)>>,
                            res.ret)
    /\ cpc' = "returned"

logout(c) ==
    /\ ClientIdle
    /\ IF session_id = None
       THEN /\ call' = NewCall("logout", c, None, <<>>, <<>>, "True")
            /\ UNCHANGED session_id
       ELSE \E r \in LogoutResps :
              LET res == LogoutResult(r, session_id) IN
              /\ session_id' = res.session_id
              /\ call' = NewCall("logout", c, None, <<>>,
                                 <<Req("logout", None, MethodParams("logout"), r, None)>>,
                                 res.ret)
    /\ cpc' = "returned"

get_task_list(c) ==
    /\ ClientIdle
    /\ IF session_id = None
       THEN call' = NewCall("list", c, None, <<>>, <<>>, None)
       ELSE \E r \in ListResps :
              call' = NewCall("list", c, None, <<>>,
                              <<Req("list", session_id, MethodParams("list"), r, None)>>,
                              ListResult(r))
    /\ cpc' = "returned"
    /\ UNCHANGED session_id

\* create_download_task without the check of lines 125-127
create_download_task_unchecked(c, url, dest) ==
    /\ ClientIdle
    /\ call' = NewCall("create", c, url, dest, <<>>, "pending")
    /\ cpc' = "post"
    /\ UNCHANGED session_id

\* entry of create_download_task, lines 125-143
create_download_task(c, url, dest) ==
    /\ ClientIdle
    /\ IF session_id = None
       THEN /\ call' = NewCall("create", c, url, dest, <<>>, "False")
            /\ cpc' = "returned"
       ELSE /\ call' = NewCall("create", c, url, dest, <<>>, "pending")
            /\ cpc' = "post"
    /\ UNCHANGED session_id

\* a call that sends, in every create request, the cookie it held at entry
CreatePostStaleToken ==
    /\ cpc = "post"
    /\ \E r \in CreateResps :
         LET out == CreateOutcome(r)
             rq == Req("create", call.tok0,
                       PostData(call.url, call.destination), r, None)
         IN  IF out = "relogin" /\ call.depth < MaxRelogin
             THEN /\ call' = [call EXCEPT !.trace = Append(@, rq)]
                  /\ cpc' = "relogin"
             ELSE /\ call' = [call EXCEPT
                                !.trace = Append(@, rq),
                                !.ret = Returned(call.depth,
                                           IF out = "relogin" THEN "False" ELSE out)]
                  /\ cpc' = "returned"
    /\ UNCHANGED session_id

\* a call that, when the nesting is exhausted, unwinds and starts over
CreatePostRestarts ==
    /\ cpc = "post"
    /\ \E r \in CreateResps :
         LET out == CreateOutcome(r)
             rq == Req("create", session_id,
                       PostData(call.url, call.destination), r, None)
         IN  IF out = "relogin"
             THEN /\ call' = IF call.depth < MaxRelogin
                             THEN [call EXCEPT !.trace = Append(@, rq)]
                             ELSE [call EXCEPT !.trace = <<>>, !.depth = 0]
                  /\ cpc' = "relogin"
             ELSE /\ call' = [call EXCEPT !.trace = Append(@, rq),
                                          !.ret = Returned(call.depth, out)]
                  /\ cpc' = "returned"
    /\ UNCHANGED session_id

\* the POST of lines 147-169 and the branch on its answer. Each 119 nests
\* one more call (line 166); when no further call can be nested, the
\* RecursionError raised on the way to it is an Exception, so the handler of
\* lines 171-173 logs it and returns False.
CreatePost ==
    /\ cpc = "post"
    /\ \E r \in CreateResps :
         LET out == CreateOutcome(r)
             rq == Req("create", session_id,
                       PostData(call.url, call.destination), r, None)
         IN  IF out = "relogin" /\ call.depth < MaxRelogin
             THEN /\ call' = [call EXCEPT !.trace = Append(@, rq)]
                  /\ cpc' = "relogin"
             ELSE /\ call' = [call EXCEPT
                                !.trace = Append(@, rq),
                                !.ret = Returned(call.depth,
                                           IF out = "relogin" THEN "False" ELSE out)]
                  /\ cpc' = "returned"
    /\ UNCHANGED session_id

\* lines 165-169: login() after a 119, then the recursive call and its entry
CreateRelogin ==
    /\ cpc = "relogin"
    /\ \E r \in LoginResps :
         LET res == LoginResult(r.resp, r.sid, session_id)
             rq == Req("auth", None, LoginParams, r.resp, r.sid)
         IN  /\ session_id' = res.session_id
             /\ IF res.ret = "True" /\ res.session_id # None
                THEN /\ call' = [call EXCEPT !.trace = Append(@, rq),
                                             !.depth = @ + 1]
                     /\ cpc' = "post"
                ELSE /\ call' = [call EXCEPT
                                   !.trace = Append(@, rq),
                                   !.depth = IF res.ret = "True" THEN @ + 1 ELSE @,
                                   !.ret = IF res.ret = "True"
                                           THEN Returned(call.depth + 1, "False")
                                           ELSE "False"]
                     /\ cpc' = "returned"

----------------------------------------------------------------------------
(* Strings as sequences of characters *)

UpperOf ==
    [a |-> "A", b |-> "B", c |-> "C", d |-> "D", e |-> "E", f |-> "F",
     g |-> "G", h |-> "H", i |-> "I", j |-> "J", k |-> "K", l |-> "L",
     m |-> "M", n |-> "N", o |-> "O", p |-> "P", q |-> "Q", r |-> "R",
     s |-> "S", t |-> "T", u |-> "U", v |-> "V", w |-> "W", x |-> "X",
     y |-> "Y", z |-> "Z"]

\* str.lower() on one character
LowerChar(c) ==
    IF \E a \in DOMAIN UpperOf : UpperOf[a] = c
    THEN CHOOSE a \in DOMAIN UpperOf : UpperOf[a] = c
    ELSE c

\* str.lower()
lower(s) == [i \in 1..Len(s) |-> LowerChar(s[i])]

\* str.replace(' ', '_'), lines 181-182
replace_spaces(s) == [i \in 1..Len(s) |-> IF s[i] = " " THEN "_" ELSE s[i]]

\* position of the last c in s, 0 when there is none (str.rfind, 1-based)
rfind(s, c) ==
    IF \E i \in 1..Len(s) : s[i] = c
    THEN CHOOSE i \in 1..Len(s) : s[i] = c /\ \A j \in (i+1)..Len(s) : s[j] # c
    ELSE 0

\* os.path.splitext(p)[1]: the suffix from the last dot of the last path
\* component, empty when that component has no dot or only leading dots
splitext_ext(p) ==
    LET sep == rfind(p, "/")
        dot == rfind(p, ".")
    IN  IF dot > sep /\ \E i \in (sep+1)..(dot-1) : p[i] # "."
        THEN SubSeq(p, dot, Len(p))
        ELSE <<>>

\* MEDIA_EXTENSIONS, lines 32-35
MEDIA_EXTENSIONS ==
    [images |-> {<<".", "j", "p", "g">>, <<".", "j", "p", "e", "g">>,
                 <<".", "p", "n", "g">>, <<".", "g", "i", "f">>,
                 <<".", "b", "m", "p">>, <<".", "w", "e", "b", "p">>,
                 <<".", "s", "v", "g">>, <<".", "t", "i", "f", "f">>,
                 <<".", "i", "c", "o">>},
     videos |-> {<<".", "m", "p", "4">>, <<".", "a", "v", "i">>,
                 <<".", "m", "o", "v">>, <<".", "w", "m", "v">>,
                 <<".", "f", "l", "v">>, <<".", "w", "e", "b", "m">>,
                 <<".", "m", "k", "v">>, <<".", "m", "4", "v">>,
                 <<".", "3", "g", "p">>, <<".", "o", "g", "v">>}]

\* _is_media_file without the lower() of line 167
_is_media_file_case_sensitive(filename) ==
    IF filename = <<>>
    THEN FALSE
    ELSE splitext_ext(filename)
            \in (MEDIA_EXTENSIONS.images \cup MEDIA_EXTENSIONS.videos)

\* _is_media_file, lines 161-174
_is_media_file(filename) ==
    IF filename = <<>>
    THEN FALSE
    ELSE splitext_ext(lower(filename))
            \in (MEDIA_EXTENSIONS.images \cup MEDIA_EXTENSIONS.videos)

----------------------------------------------------------------------------
(* Config *)

\* a setting that Python's `not x` treats as missing
Falsy(x) == x \in {None, ""}

\* a validate that returns at the first violated rule
validateFirstOnly(cfg) ==
    IF Falsy(cfg.discord_token) THEN <<"Missing DISCORD_BOT_TOKEN">>
    ELSE IF cfg.channel_ids = <<>>
    THEN <<"Missing or invalid DISCORD_CHANNEL_IDS">>
    ELSE IF Falsy(cfg.synology_host) THEN <<"Missing SYNOLOGY_HOST">>
    ELSE IF Falsy(cfg.synology_username) THEN <<"Missing SYNOLOGY_USERNAME">>
    ELSE IF Falsy(cfg.synology_password) THEN <<"Missing SYNOLOGY_PASSWORD">>
    ELSE IF cfg.synology_port <= 0 \/ cfg.synology_port > 65535
    THEN <<"Invalid SYNOLOGY_PORT (must be 1-65535)">>
    ELSE <<>>

\* Config.validate, lines 54-76
validate(cfg) ==
    (IF Falsy(cfg.discord_token) THEN <<"Missing DISCORD_BOT_TOKEN">> ELSE <<>>)
    \o (IF cfg.channel_ids = <<>>
        THEN <<"Missing or invalid DISCORD_CHANNEL_IDS">> ELSE <<>>)
    \o (IF Falsy(cfg.synology_host) THEN <<"Missing SYNOLOGY_HOST">> ELSE <<>>)
    \o (IF Falsy(cfg.synology_username)
        THEN <<"Missing SYNOLOGY_USERNAME">> ELSE <<>>)
    \o (IF Falsy(cfg.synology_password)
        THEN <<"Missing SYNOLOGY_PASSWORD">> ELSE <<>>)
    \o (IF cfg.synology_port <= 0 \/ cfg.synology_port > 65535
        THEN <<"Invalid SYNOLOGY_PORT (must be 1-65535)">> ELSE <<>>)

\* Config.is_valid, lines 78-80
is_valid(cfg) == Len(validate(cfg)) = 0

\* the configurations the environment may give, Config.__init__ lines 21-36
Configs ==
    [discord_token : {None, "bot-token"},
     channel_ids : {<<>>, <<42>>},
     synology_host : {None, "nas"},
     synology_port : {0, 5000, 65536},
     synology_username : {"", "admin"},
     synology_password : {None, "pw1"},
     download_destination : {<<"d", "l">>}]

----------------------------------------------------------------------------
(* Messages *)

\* the set of elements of a sequence
Range(s) == {s[i] : i \in DOMAIN s}

\* A text is a sequence of the URLs written in it. For each URL: pat is the
\* number of the MEDIA_URL_PATTERNS entry that matches in it (0: none) and
\* patUrl the text that entry matches; extUrl is the text the generic
\* media-extension pattern matches in it (None: no match).
Url(pat, patUrl, extUrl) == [pat |-> pat, patUrl |-> patUrl, extUrl |-> extUrl]

Attachment(filename, url) == [filename |-> filename, url |-> url]

Message(id, self, chanId, chanName, attachments, content) ==
    [id |-> id, author_is_self |-> self,
     channel |-> [id |-> chanId, name |-> chanName],
     attachments |-> attachments, content |-> content]

ArtName == <<"a", "r", "t">>

FanArtName == <<"f", "a", "n", " ", "a", "r", "t">>

PhotoPNG == <<"p", "h", "o", "t", "o", ".", "P", "N", "G">>

NotesTxt == <<"n", "o", "t", "e", "s", ".", "t", "x", "t">>

ImgurGif == "https://i.imgur.com/abc123.gif"

\* the messages the platform may deliver
Messages ==
    << Message(101, FALSE, 42, ArtName,
               <<Attachment(PhotoPNG, "https://cdn.discordapp.com/attachments/1/2/photo.PNG")>>,
               <<Url(4, ImgurGif, ImgurGif)>>),
       Message(102, FALSE, 42, FanArtName,
               <<Attachment(NotesTxt, "https://cdn.discordapp.com/attachments/1/3/notes.txt")>>,
               <<Url(2, "https://vimeo.com/123", None)>>),
       Message(103, TRUE, 42, ArtName, <<>>, <<Url(4, ImgurGif, ImgurGif)>>),
       Message(104, FALSE, 7, ArtName, <<>>, <<Url(4, ImgurGif, ImgurGif)>>),
       Message(105, FALSE, 42, ArtName, <<>>, <<>>) >>

\* number of entries of MEDIA_URL_PATTERNS, lines 38-46
NumPatterns == 7

\* re.findall(MEDIA_URL_PATTERNS[p], content) for pattern p and the ones
\* after it, lines 147-149
RECURSIVE PatternMatches(_, _)
PatternMatches(content, p) ==
    IF p > NumPatterns THEN <<>>
    ELSE LET t == SelectSeq(content, LAMBDA u : u.pat = p)
         IN  [i \in 1..Len(t) |-> t[i].patUrl] \o PatternMatches(content, p + 1)

\* a de-duplication that keeps each URL at its last occurrence
fromkeysKeepLast(urls) ==
    LET keep == {i \in DOMAIN urls : \A j \in (i+1)..Len(urls) : urls[j] # urls[i]}
    IN  [p \in 1..Cardinality(keep) |->
            urls[CHOOSE i \in keep : Cardinality({j \in keep : j < i}) = p - 1]]

\* re.findall(url_pattern, content), lines 152-156
DirectMatches(content) ==
    LET t == SelectSeq(content, LAMBDA u : u.extUrl # None)
    IN  [i \in 1..Len(t) |-> t[i].extUrl]

\* list(dict.fromkeys(urls)), line 159
RECURSIVE fromkeys(_)
fromkeys(urls) ==
    IF urls = <<>> THEN <<>>
    ELSE LET init == fromkeys(SubSeq(urls, 1, Len(urls) - 1))
             last == urls[Len(urls)]
         IN  IF last \in Range(init) THEN init ELSE Append(init, last)

\* lines 138-142
AttachmentUrls(attachments) ==
    LET t == SelectSeq(attachments, LAMBDA a : _is_media_file(a.filename))
    IN  [i \in 1..Len(t) |-> t[i].url]

\* _extract_media_urls, lines 134-159
_extract_media_urls(msg) ==
    fromkeys(AttachmentUrls(msg.attachments)
             \o (IF msg.content # <<>>
                 THEN PatternMatches(msg.content, 1) \o DirectMatches(msg.content)
                 ELSE <<>>))

----------------------------------------------------------------------------
(* The file name that _download_media builds, lines 180-192 *)

\* message.created_at and message.author.display_name of the messages
created_at ==
    [m \in DOMAIN Messages |->
        [year |-> 2024, month |-> 3, day |-> 7, hour |-> 9, minute |-> 5,
         second |-> m]]

display_name == [m \in DOMAIN Messages |-> <<"J", " ", "D", "o", "e">>]

Digit == <<"0", "1", "2", "3", "4", "5", "6", "7", "8", "9">>

\* a number in decimal, zero padded to w digits
RECURSIVE Decimal(_, _)
Decimal(n, w) ==
    IF w = 0 THEN <<>>
    ELSE Append(Decimal(n \div 10, w - 1), Digit[(n % 10) + 1])

\* created_at.strftime("%Y%m%d_%H%M%S"), line 180
strftime(t) ==
    Decimal(t.year, 4) \o Decimal(t.month, 2) \o Decimal(t.day, 2) \o <<"_">>
        \o Decimal(t.hour, 2) \o Decimal(t.minute, 2) \o Decimal(t.second, 2)

\* urlparse(url).path, line 185, of the URLs of Messages
urlparse_path(url) ==
    CASE url = "https://cdn.discordapp.com/attachments/1/2/photo.PNG"
            -> <<"/", "a", "t", "t", "a", "c", "h", "m", "e", "n", "t", "s", "/", "1", "/", "2", "/", "p", "h", "o", "t", "o", ".", "P", "N", "G">>
      [] url = "https://cdn.discordapp.com/attachments/1/3/notes.txt"
            -> <<"/", "a", "t", "t", "a", "c", "h", "m", "e", "n", "t", "s", "/", "1", "/", "3", "/", "n", "o", "t", "e", "s", ".", "t", "x", "t">>
      [] url = "https://vimeo.com/123"
            -> <<"/", "1", "2", "3">>
      [] url = ImgurGif
            -> <<"/", "a", "b", "c", "1", "2", "3", ".", "g", "i", "f">>

\* os.path.basename, line 186
basename(path) == SubSeq(path, rfind(path, "/") + 1, Len(path))

\* os.path.splitext(p)[0], line 189
splitext_root(p) == SubSeq(p, 1, Len(p) - Len(splitext_ext(p)))

\* lines 180-192: the file name built for url of message m
filename(url, m) ==
    LET timestamp == strftime(created_at[m])
        channel_name == replace_spaces(Messages[m].channel.name)
        author_name == replace_spaces(display_name[m])
        prefix == timestamp \o <<"_">> \o channel_name \o <<"_">> \o author_name
        original_filename == basename(urlparse_path(url))
    IN  IF original_filename # <<>> /\ "." \in Range(original_filename)
        THEN prefix \o <<"_">> \o splitext_root(original_filename)
                 \o splitext_ext(original_filename)
        ELSE prefix

----------------------------------------------------------------------------
(* DiscordShowcaseLoader *)

Flows == 1..MaxEvents

IdleCall ==
    [op |-> "none", caller |-> 0, tok0 |-> None, url |-> None,
     destination |-> <<>>, trace |-> <<>>, depth |-> 0, ret |-> "pending"]

IdleFlow ==
    [pc |-> "idle", m |-> 0, media_urls |-> <<>>, idx |-> 0,
     handler |-> "none", log |-> <<>>]

\* the reactions of lines 205, 214 and 223
Reaction == [success |-> "check", failure |-> "cross", error |-> "warning"]

\* what an awaited add_reaction may do: succeed, raise discord.HTTPException
\* (caught at lines 206, 215, 224), or raise any other exception (a
\* connection error that the HTTP client re-raises)
ReactionOutcomes == {"ok", "HTTPException", "OtherException"}

\* line 123 for each message the platform may deliver
media_urls_of == [m \in DOMAIN Messages |-> _extract_media_urls(Messages[m])]

\* _extract_media_urls has not been called
NotExtracted == [done |-> FALSE, media_urls |-> <<>>]

\* on_message without line 120
MarkProcessedLost(S, id) == S

\* line 120
MarkProcessed(S, id) == S \cup {id}

\* on_message without the processed check of lines 114-115
SkipsIgnoresProcessed(msg) ==
    \/ msg.author_is_self
    \/ msg.channel.id \notin Range(config.channel_ids)

\* on_message without the channel check of lines 110-111
SkipsIgnoresChannel(msg) ==
    \/ msg.author_is_self
    \/ msg.id \in processed_messages

\* lines 106-115: the three skip conditions
Skips(msg) ==
    \/ msg.author_is_self
    \/ msg.channel.id \notin Range(config.channel_ids)
    \/ msg.id \in processed_messages

\* line 195 with the channel name as it is
DestinationUnsanitized(msg) ==
    config.download_destination \o <<"/">> \o msg.channel.name

\* line 195
Destination(msg) ==
    config.download_destination \o <<"/">> \o replace_spaces(msg.channel.name)

\* a loop that submits the candidate it has just handled again
NextCandidateRepeats(f) ==
    IF flow[f].idx < Len(flow[f].media_urls)
    THEN /\ flow' = [flow EXCEPT ![f].pc = "submit", ![f].handler = "none"]
         /\ running' = f
    ELSE /\ flow' = [flow EXCEPT ![f].pc = "done", ![f].handler = "none"]
         /\ running' = 0

\* the for loop of lines 129-130 after candidate idx: the next candidate, or
\* the end of on_message
NextCandidate(f) ==
    IF flow[f].idx < Len(flow[f].media_urls)
    THEN /\ flow' = [flow EXCEPT ![f].pc = "submit", ![f].idx = @ + 1,
                                 ![f].handler = "none"]
         /\ running' = f
    ELSE /\ flow' = [flow EXCEPT ![f].pc = "done", ![f].handler = "none"]
         /\ running' = 0

\* setup_hook, lines 69-85; close() in it finds no session_id
setup_hook ==
    /\ botpc = "start"
    /\ IF validate(config) # <<>>
       THEN /\ botpc' = "closed"
            /\ UNCHANGED clientVars
       ELSE /\ login("bot")
            /\ botpc' = IF call'.ret = "True" THEN "ready" ELSE "closed"
    /\ UNCHANGED <<config, extractVars, processed_messages, flow, running>>

\* on_message, lines 103-132, up to the first _download_media call; the
\* f-th event delivered starts task f
on_message(f, m) ==
    /\ botpc = "ready"
    /\ running = 0
    /\ flow[f].pc = "idle"
    /\ \A g \in 1..(f-1) : flow[g].pc # "idle"
    /\ LET msg == Messages[m] IN
       IF Skips(msg)
       THEN /\ flow' = [flow EXCEPT ![f].pc = "skipped", ![f].m = m]
            /\ UNCHANGED <<processed_messages, running>>
       ELSE LET urls == media_urls_of[m] IN
            /\ processed_messages' = MarkProcessed(processed_messages, msg.id)
            /\ flow' = [flow EXCEPT
                          ![f].pc = IF urls = <<>> THEN "done" ELSE "submit",
                          ![f].m = m,
                          ![f].media_urls = urls,
                          ![f].idx = IF urls = <<>> THEN 0 ELSE 1]
            /\ running' = IF urls = <<>> THEN 0 ELSE f
    /\ UNCHANGED <<clientVars, config, extractVars, botpc>>

\* _download_media, lines 176-198: the call of create_download_task
_download_media(f) ==
    /\ flow[f].pc = "submit"
    /\ running = f
    /\ create_download_task(f, flow[f].media_urls[flow[f].idx],
                            Destination(Messages[flow[f].m]))
    /\ flow' = [flow EXCEPT ![f].pc = "client"]
    /\ UNCHANGED <<config, extractVars, botpc, processed_messages, running>>

\* lines 198-216: create_download_task has returned; the reaction for its
\* result is requested and the task suspends in add_reaction
download_result(f) ==
    /\ flow[f].pc = "client"
    /\ running = f
    /\ cpc = "returned"
    /\ call.caller = f
    /\ LET sym == IF call.ret = "True" THEN Reaction.success ELSE Reaction.failure
       IN  flow' = [flow EXCEPT
                      ![f].pc = "react",
                      ![f].handler = "try",
                      ![f].log = @ \o
                         <<[ev |-> "submit", k |-> flow[f].idx, val |-> call.ret],
                           [ev |-> "marker", k |-> flow[f].idx, val |-> sym]>>]
    /\ running' = 0
    /\ cpc' = "idle"
    /\ call' = IdleCall
    /\ UNCHANGED <<session_id, config, extractVars, botpc, processed_messages>>

\* add_reaction completes, lines 204-225. An exception that is not a
\* discord.HTTPException raised inside the try block reaches the handler of
\* line 218, which requests the warning reaction; raised by that reaction it
\* leaves _download_media and on_message.
add_reaction(f) ==
    /\ flow[f].pc = "react"
    /\ running = 0
    /\ botpc \in {"ready", "closing"}
    /\ \E o \in ReactionOutcomes :
         IF o # "OtherException"
         THEN NextCandidate(f)
         ELSE IF flow[f].handler = "try"
              THEN /\ flow' = [flow EXCEPT
                                 ![f].handler = "except",
                                 ![f].log = Append(@,
                                    [ev |-> "marker", k |-> flow[f].idx,
                                     val |-> Reaction.error])]
                   /\ UNCHANGED running
              ELSE /\ flow' = [flow EXCEPT ![f].pc = "raised"]
                   /\ UNCHANGED running
    /\ UNCHANGED <<clientVars, config, extractVars, botpc, processed_messages>>

\* close that goes straight to the platform's close
close_without_logout ==
    /\ botpc = "ready"
    /\ running = 0
    /\ UNCHANGED clientVars
    /\ botpc' = "closing"
    /\ UNCHANGED <<config, extractVars, processed_messages, flow, running>>

\* close entered while a message task is inside a client call
close_while_running ==
    /\ botpc = "ready"
    /\ IF session_id # None
       THEN logout("bot")
       ELSE UNCHANGED clientVars
    /\ botpc' = "closing"
    /\ UNCHANGED <<config, extractVars, processed_messages, flow, running>>

\* close, lines 227-235, up to the await of the platform's close
close ==
    /\ botpc = "ready"
    /\ running = 0
    /\ IF session_id # None
       THEN logout("bot")
       ELSE UNCHANGED clientVars
    /\ botpc' = "closing"
    /\ UNCHANGED <<config, extractVars, processed_messages, flow, running>>

\* the platform connection is closed and main returns, lines 235 and 248-250
closed ==
    /\ botpc = "closing"
    /\ running = 0
    /\ botpc' = "closed"
    /\ UNCHANGED <<clientVars, config, extractVars, processed_messages, flow, running>>

----------------------------------------------------------------------------
(* The bot: main() of discord_showcase_loader.py *)

Init ==
    /\ session_id = None
    /\ cpc = "idle"
    /\ call = IdleCall
    /\ config \in Configs
    /\ botpc = "start"
    /\ processed_messages = {}
    /\ flow = [f \in Flows |-> IdleFlow]
    /\ running = 0
    /\ message = Messages[1]
    /\ extracted = NotExtracted

ClientStep ==
    /\ running # 0
    /\ CreatePost \/ CreateRelogin
    /\ UNCHANGED botVars

Next ==
    \/ setup_hook
    \/ \E f \in Flows, m \in DOMAIN Messages : on_message(f, m)
    \/ \E f \in Flows : _download_media(f)
    \/ ClientStep
    \/ \E f \in Flows : download_result(f)
    \/ \E f \in Flows : add_reaction(f)
    \/ close
    \/ closed

Spec == Init /\ [][Next]_vars

----------------------------------------------------------------------------
(* The client alone, driven as test_synology_connection drives it: any     *)
(* sequence of calls of its four methods                                   *)

TestUrls == {"https://example.com/a.png"}

TestDestinations == {<<>>, <<"d", "l">>}

ClientInit ==
    /\ session_id = None
    /\ cpc = "idle"
    /\ call = IdleCall
    /\ config \in {c \in Configs : is_valid(c)}
    /\ botpc = "test"
    /\ processed_messages = {}
    /\ flow = [f \in Flows |-> IdleFlow]
    /\ running = 0
    /\ message = Messages[1]
    /\ extracted = NotExtracted

TestLogin == login("test") /\ UNCHANGED botVars

TestLogout == logout("test") /\ UNCHANGED botVars

TestCreate ==
    /\ \E u \in TestUrls, d \in TestDestinations : create_download_task("test", u, d)
    /\ UNCHANGED botVars

TestList == get_task_list("test") /\ UNCHANGED botVars

TestCreatePost == botpc = "test" /\ CreatePost /\ UNCHANGED botVars

TestCreateRelogin == botpc = "test" /\ CreateRelogin /\ UNCHANGED botVars

ClientNext ==
    \/ TestLogin
    \/ TestLogout
    \/ TestCreate
    \/ TestList
    \/ TestCreatePost
    \/ TestCreateRelogin

ClientSpec == ClientInit /\ [][ClientNext]_vars

\* the client's code never suspends inside a call and every request ends
\* within its timeout of 10 seconds (lines 62, 98, 148, 199), so a call in
\* progress always takes its next step
FairClientSpec ==
    /\ ClientInit
    /\ [][ClientNext]_vars
    /\ WF_vars(TestCreatePost)
    /\ WF_vars(TestCreateRelogin)

----------------------------------------------------------------------------
(* _extract_media_urls alone: one call on any message of a bounded shape   *)

DotPng == <<".", "p", "n", "g">>

Clip == <<"c", "l", "i", "p">>

\* attachments: a media file with an upper-case extension, a text file, a
\* file whose name is only an extension, a file without extension
ExtractAttachments ==
    { Attachment(PhotoPNG, "https://cdn.discordapp.com/attachments/1/2/photo.PNG"),
      Attachment(NotesTxt, "https://cdn.discordapp.com/attachments/1/3/notes.txt"),
      Attachment(DotPng, "https://cdn.discordapp.com/attachments/1/4/.png"),
      Attachment(Clip, "https://cdn.discordapp.com/attachments/1/5/clip") }

\* URLs in the text: the URL of the first attachment (pattern 6 and the
\* generic pattern match it), a vimeo page, an imgur image (pattern 4 and
\* the generic pattern), a media file on another host (generic pattern only)
ExtractTokens ==
    { Url(6, "https://cdn.discordapp.com/attachments/1/2/photo.PNG", "https://cdn.discordapp.com/attachments/1/2/photo.PNG"),
      Url(2, "https://vimeo.com/123", None),
      Url(4, ImgurGif, ImgurGif),
      Url(0, None, "https://example.com/a.png") }

SeqsUpTo(S, n) == UNION {[1..k -> S] : k \in 0..n}

ExtractInputs ==
    { Message(201, FALSE, 42, ArtName, a, c) :
        a \in SeqsUpTo(ExtractAttachments, MaxAttachments),
        c \in SeqsUpTo(ExtractTokens, MaxText) }

ExtractInit ==
    /\ session_id = None
    /\ cpc = "idle"
    /\ call = IdleCall
    /\ config \in {c \in Configs : is_valid(c)}
    /\ botpc = "extract"
    /\ processed_messages = {}
    /\ flow = [f \in Flows |-> IdleFlow]
    /\ running = 0
    /\ message \in ExtractInputs
    /\ extracted = NotExtracted

\* line 123: the call of _extract_media_urls
Extract ==
    /\ botpc = "extract"
    /\ ~extracted.done
    /\ extracted' = [done |-> TRUE, media_urls |-> _extract_media_urls(message)]
    /\ UNCHANGED <<clientVars, config, botpc, processed_messages, flow, running,
                   message>>

ExtractNext == Extract

ExtractSpec == ExtractInit /\ [][ExtractNext]_vars

----------------------------------------------------------------------------
(* Properties of the session client, checked under ClientSpec *)

CallReturned(op) == call.op = op /\ cpc = "returned"

\* the kinds of the requests of the call, and the answers, in order
RequestKinds == [i \in DOMAIN call.trace |-> call.trace[i].req]

Responses == [i \in DOMAIN call.trace |-> call.trace[i].resp]

CountRequests(kind) == Cardinality({i \in DOMAIN call.trace : call.trace[i].req = kind})

\* C2: one create_download_task call makes at most two create requests and
\* at most one authenticate request, and when the retried create fails (also
\* with 119 again) the call has returned False.
C2_OneReauthCycle ==
    call.op = "create" =>
        /\ CountRequests("create") <= 2
        /\ CountRequests("auth") <= 1
        /\ (Len(call.trace) >= 3 /\ call.trace[3].resp # "ok")
              => (cpc = "returned" /\ call.ret = "False")

\* C3: an authenticated create_download_task whose create is answered 119,
\* whose login then succeeds and whose retried create succeeds returns True
\* after exactly the requests create, authenticate, create.
C3_ReauthRetrySucceeds ==
    (CallReturned("create") /\ call.tok0 # None
        /\ Responses = <<"e119", "ok", "ok">>)
    => (call.ret = "True" /\ RequestKinds = <<"create", "auth", "create">>)

C3_Witness ==
    /\ CallReturned("create")
    /\ Responses = <<"e119", "ok", "ok">>
    /\ call.ret = "True"
    /\ session_id # call.tok0

\* C4: create_download_task called with no session token returns False at
\* once, has made no request of any kind, and the token is still absent.
C4_UnauthenticatedNoNetwork ==
    (call.op = "create" /\ call.tok0 = None)
    => (cpc = "returned" /\ call.ret = "False" /\ call.trace = <<>>
        /\ session_id = None)

C4_Witness == CallReturned("create") /\ call.tok0 = None /\ call.trace = <<>>

\* C5: when the create request is answered with an error other than 119 (403
\* in particular), create_download_task returns False after that one create
\* request, no authenticate request is made, and the token is unchanged.
C5_OtherErrorNoRetry ==
    (call.op = "create" /\ Len(call.trace) >= 1
        /\ call.trace[1].resp \in {"e403", "eother"})
    => /\ cpc = "returned"
       /\ call.ret = "False"
       /\ RequestKinds = <<"create">>
       /\ session_id = call.tok0

C5_Witness ==
    /\ CallReturned("create")
    /\ Responses = <<"e403">>
    /\ call.ret = "False"

\* C6: a transport error in any request of login, logout,
\* create_download_task (its re-login and retried create included) or
\* get_task_list ends the call: it is the last request of the call, and the
\* call returns False (None for get_task_list), never an exception.
C6_TransportErrorIsFailure ==
    /\ call.ret \in {"pending", "True", "False", "data", None}
    /\ \A i \in DOMAIN call.trace :
         call.trace[i].resp \in TransportErr
         => /\ i = Len(call.trace)
            /\ cpc = "returned"
            /\ call.ret = (IF call.op = "list" THEN None ELSE "False")

C6_Witness ==
    /\ CallReturned("create")
    /\ Len(call.trace) = 3
    /\ call.trace[3].req = "create"
    /\ call.trace[3].resp \in TransportErr
    /\ call.ret = "False"

\* C7: login called with no token stored returns True only if a token is
\* stored afterwards, and on a transport error, a non-success answer or a
\* success answer without a session cookie returns False with the token
\* still absent.
C7_LoginSuccessStoresToken ==
    (CallReturned("login") /\ call.tok0 = None)
    => /\ call.ret = "True" => session_id # None
       /\ (call.trace[1].resp # "ok" \/ call.trace[1].sid = None)
             => (call.ret = "False" /\ session_id = None)

\* C8: logout with no token returns True without any request; with a token it
\* makes one logout request, clears the token exactly when that request
\* succeeds, and otherwise returns False and leaves the token as it was.
C8_LogoutContract ==
    CallReturned("logout") =>
        IF call.tok0 = None
        THEN call.ret = "True" /\ call.trace = <<>> /\ session_id = None
        ELSE /\ RequestKinds = <<"logout">>
             /\ call.trace[1].resp = "ok"
                   => (call.ret = "True" /\ session_id = None)
             /\ call.trace[1].resp # "ok"
                   => (call.ret = "False" /\ session_id = call.tok0)

C8_Witness ==
    /\ CallReturned("logout")
    /\ call.tok0 # None
    /\ call.trace[1].resp \in TransportErr
    /\ session_id = call.tok0

----------------------------------------------------------------------------
(* Properties of the bot, checked under Spec *)

\* the tasks that got past the three skip conditions for message id i
Passes(i) ==
    {f \in Flows : /\ flow[f].pc \notin {"idle", "skipped"}
                   /\ Messages[flow[f].m].id = i}

\* the events handled so far that carry message id i
Events(i) ==
    {f \in Flows : flow[f].pc # "idle" /\ Messages[flow[f].m].id = i}

Eligible(m) ==
    /\ ~Messages[m].author_is_self
    /\ Messages[m].channel.id \in Range(config.channel_ids)

\* the log entries of task f of kind ev for candidate k
Entries(f, ev, k) ==
    SelectSeq(flow[f].log, LAMBDA e : e.ev = ev /\ e.k = k)

\* C1: of the events that carry one message id (author not the bot, channel
\* monitored), exactly one task runs the extractor and calls
\* create_download_task; every other one is skipped and submits nothing.
C1_AtMostOnePass ==
    \A m \in DOMAIN Messages :
        LET passes == Passes(Messages[m].id)
            events == Events(Messages[m].id)
        IN  /\ Cardinality(passes) <= 1
            /\ (Eligible(m) /\ events # {}) => Cardinality(passes) = 1
            /\ \A f \in events \ passes : flow[f].log = <<>>

C1_Witness ==
    \E f, g \in Flows :
        /\ flow[f].m = 1 /\ flow[g].m = 1
        /\ flow[f].pc = "skipped"
        /\ flow[g].pc = "react"
        /\ Len(Entries(g, "submit", 1)) = 1

\* C9: a task never ends by an exception leaving the per-candidate handling,
\* and when on_message has ended every candidate of its list has had its
\* create_download_task call.
C9_EveryCandidateSubmitted ==
    \A f \in Flows :
        /\ flow[f].pc # "raised"
        /\ flow[f].pc = "done"
              => \A k \in DOMAIN flow[f].media_urls :
                    Len(Entries(f, "submit", k)) = 1

\* C10: for each submitted candidate exactly one reaction is requested: the
\* success reaction when create_download_task returned True, the failure
\* reaction when it returned False; the warning reaction only for an
\* exception raised by the submission itself.
C10_OneMatchingMarker ==
    \A f \in Flows :
        \A k \in DOMAIN flow[f].media_urls :
            Len(Entries(f, "submit", k)) = 1
            => /\ Len(Entries(f, "marker", k)) = 1
               /\ Entries(f, "marker", k)[1].val =
                     (IF Entries(f, "submit", k)[1].val = "True"
                      THEN Reaction.success ELSE Reaction.failure)


\* the create_download_task calls task f has completed, in order
Submitted(f) == SelectSeq(flow[f].log, LAMBDA e : e.ev = "submit")

\* C11: within one message task the candidates are submitted one after the
\* other in extraction order: the create_download_task call for a candidate
\* starts only when every earlier candidate has had its call and its
\* reaction, and the task is then not waiting for a reaction.
C11_SequentialInOrder ==
    \A f \in Flows :
        LET lg == flow[f].log
            done == Submitted(f)
        IN  /\ \A i \in DOMAIN done : done[i].k = i
            /\ \A i \in DOMAIN lg :
                  lg[i].ev = "submit"
                  => (i < Len(lg) /\ lg[i+1].ev = "marker" /\ lg[i+1].k = lg[i].k)
            /\ flow[f].pc \in {"submit", "client"}
                  => Len(done) = flow[f].idx - 1
            /\ (call.op = "create" /\ call.caller = f)
                  => /\ flow[f].pc = "client"
                     /\ call.url = flow[f].media_urls[Len(done) + 1]

C11_Witness ==
    \E f, g \in Flows :
        /\ f # g
        /\ flow[f].pc = "client" /\ flow[f].idx = 2 /\ cpc = "post"
        /\ flow[g].pc = "react"

\* the session token that the requests of a call leave, given the token at
\* its start: the cookie of its last successful login
RECURSIVE TokenAfter(_, _)
TokenAfter(trace, tok0) ==
    IF trace = <<>> THEN tok0
    ELSE LET last == trace[Len(trace)] IN
         IF last.req = "auth" /\ last.resp = "ok" THEN last.sid
         ELSE TokenAfter(SubSeq(trace, 1, Len(trace) - 1), tok0)

\* C12: while a message task is inside create_download_task (from its first
\* request to its return, re-login and retried create included) the call in
\* progress is that task's, no other task and no shutdown step runs, and the
\* session token is the one this call's own requests left: no login or
\* logout of another task, or of close, falls inside it.
C12_TokenOpsSerialized ==
    \A f \in Flows :
        flow[f].pc = "client"
        => /\ call.op = "create"
           /\ call.caller = f
           /\ running = f
           /\ session_id = TokenAfter(call.trace, call.tok0)
           /\ \A g \in Flows \ {f} : flow[g].pc # "client"

C12_Witness ==
    \E f \in Flows :
        /\ flow[f].pc = "client"
        /\ cpc = "post"
        /\ call.depth = 1
        /\ botpc = "closing"


\* the create requests of the call in progress
CreateRequests == SelectSeq(call.trace, LAMBDA q : q.req = "create")

\* C16: every create request made for a candidate of a message carries as
\* destination the configured root, "/", and the channel name of the message
\* with each space replaced by an underscore; so the destination is the same
\* for every candidate of the message.
C16_DestinationFromChannel ==
    \A f \in Flows :
        flow[f].pc = "client"
        => LET name == Messages[flow[f].m].channel.name
               root == config.download_destination
               reqs == CreateRequests
           IN  \A i \in DOMAIN reqs :
                  LET d == reqs[i].data IN
                  /\ "destination" \in DOMAIN d
                  /\ Len(d.destination) = Len(root) + 1 + Len(name)
                  /\ SubSeq(d.destination, 1, Len(root)) = root
                  /\ d.destination[Len(root) + 1] = "/"
                  /\ \A j \in DOMAIN name :
                        d.destination[Len(root) + 1 + j]
                            = IF name[j] = " " THEN "_" ELSE name[j]

C16_Witness ==
    \E f \in Flows :
        /\ flow[f].pc = "client"
        /\ " " \in Range(Messages[flow[f].m].channel.name)
        /\ cpc = "returned"
        /\ Len(CreateRequests) = 2

\* the rules of Config.validate that cfg violates
ViolatedRules(cfg) ==
    {r \in 1..6 :
        \/ r = 1 /\ cfg.discord_token \in {None, ""}
        \/ r = 2 /\ Len(cfg.channel_ids) = 0
        \/ r = 3 /\ cfg.synology_host \in {None, ""}
        \/ r = 4 /\ cfg.synology_username \in {None, ""}
        \/ r = 5 /\ cfg.synology_password \in {None, ""}
        \/ r = 6 /\ ~(1 <= cfg.synology_port /\ cfg.synology_port <= 65535)}

\* the error text of each rule, lines 59-74
RuleText ==
    << "Missing DISCORD_BOT_TOKEN", "Missing or invalid DISCORD_CHANNEL_IDS",
       "Missing SYNOLOGY_HOST", "Missing SYNOLOGY_USERNAME",
       "Missing SYNOLOGY_PASSWORD", "Invalid SYNOLOGY_PORT (must be 1-65535)" >>

\* C19: validate returns one entry for every violated rule (bot token,
\* channel list, host, username, password, port) and nothing else, whatever
\* combination is violated, and is_valid holds exactly when that list is
\* empty.
C19_ValidateEnumeratesAll ==
    LET errors == validate(config)
        violated == ViolatedRules(config)
        valid == is_valid(config)
    IN  /\ Len(errors) = Cardinality(violated)
        /\ Range(errors) = {RuleText[r] : r \in violated}
        /\ valid <=> errors = <<>>
        /\ valid <=> violated = {}

C19_Witness ==
    /\ botpc = "closed"
    /\ ViolatedRules(config) = 1..6
    /\ Len(validate(config)) = 6

\* C20: an event whose message is written by the bot or comes from a channel
\* that is not monitored is skipped and leaves everything as it was: its id
\* is not in processed_messages, nothing is extracted, no
\* create_download_task call is made and no reaction requested; an event
\* skipped because its id is already processed likewise extracts, submits
\* and marks nothing.
C20_SkippedNoEffect ==
    /\ \A f \in Flows :
          (flow[f].pc # "idle" /\ ~Eligible(flow[f].m))
          => /\ flow[f].pc = "skipped"
             /\ Messages[flow[f].m].id \notin processed_messages
    /\ \A f \in Flows :
          flow[f].pc = "skipped"
          => /\ flow[f].log = <<>>
             /\ flow[f].media_urls = <<>>
             /\ flow[f].idx = 0
             /\ running # f
             /\ ~(call.op = "create" /\ call.caller = f)
    /\ processed_messages
          = {Messages[flow[f].m].id :
                f \in {g \in Flows : flow[g].pc \notin {"idle", "skipped"}}}

C20_Witness ==
    \E f, g \in Flows :
        /\ flow[f].pc = "skipped" /\ Messages[flow[f].m].author_is_self
        /\ flow[g].pc = "skipped" /\ ~Messages[flow[g].m].author_is_self
        /\ Messages[flow[g].m].channel.id \notin Range(config.channel_ids)
        /\ processed_messages = {}


\* the values that the URL of a request shows: requests.get puts params in
\* the query string (lines 62, 98, 199); requests.post sends data in the
\* body (line 148)
UrlValues(q) ==
    IF q.req = "create" THEN {} ELSE {q.data[k] : k \in DOMAIN q.data}

\* what logger.error(f"... error: {str(e)}") writes for a request, lines
\* 74-75, 110-111, 171-172 and 208-209: the message of the HTTPError that
\* raise_for_status raises ends with "for url: " and the URL requested
LoggedError(q) == IF q.resp = "badstatus" THEN UrlValues(q) ELSE {}

\* C18: no error text logged by login, logout, create_download_task or
\* get_task_list contains the configured password.
C18_NoPasswordInLogs ==
    \A i \in DOMAIN call.trace :
        config.synology_password \notin LoggedError(call.trace[i])


\* C13: every create_download_task call returns, whatever the remote
\* answers, as long as each request completes; a remote that answers 119 to
\* every create and accepts every login does not keep the call running.
C13_SubmitReturns == (cpc \in {"post", "relogin"}) ~> (cpc = "returned")

C13_Witness ==
    /\ CallReturned("create")
    /\ call.depth = MaxRelogin
    /\ \A i \in DOMAIN call.trace :
          call.trace[i].resp = (IF call.trace[i].req = "create" THEN "e119" ELSE "ok")
    /\ Len(call.trace) = 2 * MaxRelogin + 1
    /\ call.ret = "False"


\* s ends with t
EndsWith(s, t) ==
    Len(t) <= Len(s) /\ SubSeq(s, Len(s) - Len(t) + 1, Len(s)) = t

\* the POST data names the file: in a field of its own or as the last
\* component of the destination
CarriesFilename(data, name) ==
    \/ "filename" \in DOMAIN data /\ data.filename = name
    \/ "destination" \in DOMAIN data /\ EndsWith(data.destination, name)

\* C17: every create request made for a candidate carries the file name
\* built for it: timestamp, channel name and author name joined by "_",
\* followed by "_" and the base name and extension of the URL path when the
\* path has one.
C17_FilenameSubmitted ==
    \A f \in Flows :
        flow[f].pc = "client"
        => \A i \in DOMAIN CreateRequests :
              CarriesFilename(CreateRequests[i].data, filename(call.url, flow[f].m))


----------------------------------------------------------------------------
(* Properties of _extract_media_urls, checked under ExtractSpec *)

\* the URLs of the three passes in the order lines 139-156 collect them
AllPasses ==
    AttachmentUrls(message.attachments)
        \o (IF message.content # <<>>
            THEN PatternMatches(message.content, 1) \o DirectMatches(message.content)
            ELSE <<>>)

\* where u occurs first in s
FirstIndex(s, u) ==
    CHOOSE i \in DOMAIN s : s[i] = u /\ \A j \in 1..(i-1) : s[j] # u

\* C14: the sequence _extract_media_urls returns holds no URL twice; it
\* holds exactly the URLs that the attachment pass, the host-pattern pass and
\* the generic pass produced, each at the place of its first occurrence in
\* their concatenation, the others keeping their relative order.
C14_NoDuplicateFirstKept ==
    extracted.done
    => LET r == extracted.media_urls IN
       /\ \A i, j \in DOMAIN r : i # j => r[i] # r[j]
       /\ Range(r) = Range(AllPasses)
       /\ \A i, j \in DOMAIN r :
             i < j => FirstIndex(AllPasses, r[i]) < FirstIndex(AllPasses, r[j])

C14_Witness ==
    /\ extracted.done
    /\ Len(message.attachments) = 1
    /\ Len(AllPasses) = 5
    /\ AllPasses[1] = AllPasses[3]
    /\ AllPasses[2] = AllPasses[4]
    /\ extracted.media_urls = <<AllPasses[1], AllPasses[2]>>

AllExtensions == MEDIA_EXTENSIONS.images \cup MEDIA_EXTENSIONS.videos

\* the file name, lower-cased, ends with one of MEDIA_EXTENSIONS
EndsInMediaExtension(name) ==
    \E ext \in AllExtensions : EndsWith(lower(name), ext)

\* the file name, lower-cased, is a name that is not made of dots only
\* followed by one of MEDIA_EXTENSIONS
HasMediaExtension(name) ==
    \E ext \in AllExtensions :
        /\ EndsWith(lower(name), ext)
        /\ \E i \in 1..(Len(name) - Len(ext)) : name[i] # "."

\* the URLs that the text of the message yields
TextUrls ==
    {message.content[i].patUrl : i \in DOMAIN message.content}
        \cup {message.content[i].extUrl : i \in DOMAIN message.content}

\* the attachments at the positions rec, and only they among the
\* attachments, give candidates: each of their URLs once, in attachment
\* order, before every candidate that comes from the text only
AttachmentsFirst(rec) ==
    LET atts == message.attachments
        r == extracted.media_urls
        attUrls == {atts[i].url : i \in rec}
    IN  /\ \A i \in rec :
              Cardinality({p \in DOMAIN r : r[p] = atts[i].url}) = 1
        /\ \A i, j \in rec :
              (i < j /\ atts[i].url # atts[j].url
                 /\ \A k \in rec : k < j => atts[k].url # atts[j].url)
              => FirstIndex(r, atts[i].url) < FirstIndex(r, atts[j].url)
        /\ \A p, q \in DOMAIN r :
              (r[p] \in attUrls /\ r[q] \notin attUrls) => p < q
        /\ \A i \in DOMAIN atts \ rec :
              atts[i].url \in Range(r) => atts[i].url \in attUrls \cup TextUrls

\* C15 as stated: the attachments that count are those whose file name ends
\* in a recognized media extension, compared case-insensitively.
C15_EndsInExtension ==
    extracted.done
    => AttachmentsFirst({i \in DOMAIN message.attachments :
                            EndsInMediaExtension(message.attachments[i].filename)})

\* C15: the URL of each attachment whose file name has a recognized media
\* extension (compared case-insensitively; a name that is only dots followed
\* by the extension has none) is in the result exactly once, in attachment
\* order and before every candidate that comes from the text only; the other
\* attachments contribute nothing.
C15_AttachmentsFirst ==
    extracted.done
    => AttachmentsFirst({i \in DOMAIN message.attachments :
                            HasMediaExtension(message.attachments[i].filename)})

C15_Witness ==
    /\ extracted.done
    /\ Len(message.attachments) = 2
    /\ message.attachments[1].filename = DotPng
    /\ message.attachments[2].filename = PhotoPNG
    /\ Len(message.content) = 2
    /\ message.content[1].pat = 2
    /\ message.content[2].patUrl = message.attachments[2].url
    /\ extracted.media_urls
          = <<message.attachments[2].url, message.content[1].patUrl>>


----------------------------------------------------------------------------
(* Properties of the session token, checked under ClientSpec *)

\* a create_download_task call has returned after a 119 answer and a login
\* that failed
ReauthFailed ==
    /\ CallReturned("create")
    /\ Len(call.trace) >= 2
    /\ call.trace[Len(call.trace) - 1].resp = "e119"
    /\ call.trace[Len(call.trace)].req = "auth"
    /\ call.trace[Len(call.trace)].resp # "ok"

\* C23: when the login that follows a 119 answer fails, create_download_task
\* returns False and session_id is still the token of the request that got
\* the 119 (not None); the next create_download_task call therefore passes
\* the check of line 125 and goes on to post with that token.
C23_FailedReauthKeepsToken ==
    /\ [](ReauthFailed
            => /\ call.ret = "False"
               /\ session_id # None
               /\ session_id = call.trace[Len(call.trace) - 1].tok)
    /\ [][(ReauthFailed /\ TestCreate)
            => /\ cpc' = "post"
               /\ call'.tok0 = session_id
               /\ session_id' = session_id]_vars

C23_Witness ==
    /\ ReauthFailed
    /\ Len(call.trace) = 2
    /\ call.trace[2].resp \in TransportErr
    /\ session_id = call.tok0

\* C24: every create and every list request carries a token that is not
\* None and is the token stored when the request is sent, that is the cookie
\* of the last successful login before it (the token at the start of the
\* call when there was none); the create retried after a successful login
\* carries the cookie of that login, not the token of the create that was
\* answered 119.
C24_RequestsCarryStoredToken ==
    \A i \in DOMAIN call.trace :
        LET q == call.trace[i] IN
        q.req \in {"create", "list"}
        => /\ q.tok # None
           /\ q.tok = TokenAfter(SubSeq(call.trace, 1, i - 1), call.tok0)
           /\ (q.req = "create" /\ i >= 3)
                 => /\ q.tok = call.trace[i - 1].sid
                    /\ q.tok # call.trace[i - 2].tok

C24_Witness ==
    /\ CallReturned("create")
    /\ Len(call.trace) = 3
    /\ call.trace[1].resp = "e119"
    /\ call.trace[3].resp = "e403"
    /\ call.trace[3].tok = call.trace[2].sid
    /\ call.trace[3].tok # call.tok0


----------------------------------------------------------------------------
(* Properties of shutdown and of the processed set, checked under Spec *)

\* every submission of task f so far failed or ended in a fault
AllFailed(f) ==
    /\ flow[f].log # <<>>
    /\ \A i \in DOMAIN flow[f].log :
          flow[f].log[i].ev = "submit" => flow[f].log[i].val = "False"

\* C22: from the moment a task holds the extractor's result, and so before
\* its first create_download_task call, the id of its message is in
\* processed_messages, and it stays there; a later event with the same id is
\* skipped without any submission, also when every submission of the first
\* task failed or the task ended by an exception.
C22_MarkedBeforeProcessing ==
    \A f \in Flows :
        flow[f].pc \notin {"idle", "skipped"}
        => /\ Messages[flow[f].m].id \in processed_messages
           /\ \A g \in Flows :
                 (g > f /\ flow[g].pc # "idle" /\ flow[g].m = flow[f].m)
                 => /\ flow[g].pc = "skipped"
                    /\ flow[g].log = <<>>
                    /\ flow[g].media_urls = <<>>

C22_Witness ==
    \E f, g \in Flows :
        /\ f < g
        /\ flow[f].pc = "raised"
        /\ AllFailed(f)
        /\ flow[g].m = flow[f].m
        /\ flow[g].pc = "skipped"

\* C21: when close() finds a session token it makes the logout request
\* before going on to close the platform connection, and it goes on whatever
\* the logout returned; when the logout succeeded the token is gone, and a
\* task still in progress that calls create_download_task afterwards gets
\* False without any request.
C21_LogoutBeforeClose ==
    /\ [][(botpc = "ready" /\ botpc' = "closing" /\ session_id # None)
            => /\ call'.op = "logout"
               /\ call'.caller = "bot"
               /\ cpc' = "returned"
               /\ Len(call'.trace) = 1
               /\ call'.trace[1].req = "logout"
               /\ call'.trace[1].resp = "ok" => session_id' = None]_vars
    /\ [][(botpc # "ready" /\ session_id = None /\ \E f \in Flows : _download_media(f))
            => /\ cpc' = "returned"
               /\ call'.trace = <<>>
               /\ call'.ret = "False"
               /\ session_id' = None]_vars
    /\ []((botpc = "closing" /\ running = 0) => ENABLED closed)

C21_Witness ==
    /\ botpc = "closing"
    /\ session_id = None
    /\ call.op = "create"
    /\ cpc = "returned"
    /\ call.trace = <<>>
    /\ \E f \in Flows :
          /\ call.caller = f
          /\ flow[f].idx = 2
          /\ flow[f].log[1].val = "True"

====
